---- MODULE Spec2Model ----
(***************************************************************************)
(* Model of obf::BasicBloomFilter<T> and obf::OrdinalBloomFilter<T>        *)
(* (src/obf/basic_bloom_filter.h, src/obf/ordinal_bloom_filter.h).         *)
(*                                                                         *)
(* Reals are fixed-point numbers in millionths; 64-bit words are four      *)
(* 16-bit limbs, least significant first, so that the unsigned 64-bit      *)
(* arithmetic of hash_at_n is computed exactly.                            *)
(***************************************************************************)
EXTENDS Integers, Sequences, FiniteSets, TLC

VARIABLES
  variant,         \* the class template: "basic" or "ordinal"
  inputs,          \* the (false_positive, capacity) pairs this run constructs with
  alive,           \* the filter objects that exist
  bits,            \* _bits of each filter
  bit_array_size,  \* _bit_array_size of each filter
  hash_func_num,   \* _hash_func_num of each filter
  added,           \* the elements added to each filter's array since it was zeroed
  origin,          \* the constructor arguments each filter's array was sized with
  last,            \* the last call
  fault,           \* a call indexed outside _bits or took a modulo by zero
  probe            \* the last call of hash_at_n on its own: arguments and result

vars == <<variant, inputs, alive, bits, bit_array_size, hash_func_num,
          added, origin, last, fault, probe>>

(***************************************************************************)
(* Bounds and inputs                                                       *)
(***************************************************************************)
MaxCapacity == 2

\* hash_at_n on its own: the array sizes 1..MaxProbeSize and the rounds of a
\* filter with MaxProbeRounds hash functions
MaxProbeSize == 7

MaxProbeRounds == 3

Capacities == 1..MaxCapacity

Variants == {"basic", "ordinal"}

Slots == {"x", "y"}

\* A rate is the decimal mant * 10^exp.
Rate(m, x) == [mant |-> m, exp |-> x]

\* -0.1, 0, 1, 1.5, 0.5, 0.1, 0.9
Rates == { Rate(-1, -1), Rate(0, 0), Rate(1, 0), Rate(15, -1),
           Rate(5, -1), Rate(1, -1), Rate(9, -1) }

\* 1e-78, a rate small enough to ask for more than 255 hash rounds
TinyRate == Rate(1, -78)

\* the (false_positive, capacity) pairs a run constructs its filters with:
\* either the common rates at every capacity, or the tiny rate at capacity 1
CommonInputs == Rates \X Capacities

WideInputs == {<<TinyRate, 1>>}

Inputs == CommonInputs \cup WideInputs

None == "none"

(***************************************************************************)
(* Fixed-point reals                                                       *)
(***************************************************************************)
Micro == 1000000

Ln2Micro == 693147

Ln2SqMicro == 480453

Ln10Micro == 2302585

\* std::log of the integers 1..9, in millionths
LnDigitMicro == <<0, 693147, 1098612, 1386294, 1609438,
                  1791759, 1945910, 2079442, 2197225>>

Min(a, b) == IF a < b THEN a ELSE b

RECURSIVE Pow10(_)
Pow10(n) == IF n = 0 THEN 1 ELSE 10 * Pow10(n - 1)

\* std::log(false_positive), in millionths
LogMicro(p) == LnDigitMicro[p.mant] + p.exp * Ln10Micro

\* std::ceil(n / d)
CeilDiv(n, d) == -((-n) \div d)

\* std::round(n / d), n >= 0
RoundDiv(n, d) == (n + d \div 2) \div d

(***************************************************************************)
(* The constructor's checks and sizing                                     *)
(***************************************************************************)
\* false_positive <= 0
RateLeZero(p) == p.mant <= 0

\* false_positive > 1: the bound 1 itself is let through
RateGtOne(p) ==
  IF p.exp >= 0 THEN p.mant > 1 ELSE p.mant > Pow10(Min(-p.exp, 9))

\* false_positive >= 1
RateGeOne(p) ==
  IF p.exp >= 0 THEN p.mant >= 1 ELSE p.mant >= Pow10(Min(-p.exp, 9))

InvalidRate(p) == RateLeZero(p) \/ RateGeOne(p)

ValidInputs == {i \in Inputs : ~InvalidRate(i[1])}

\* _bit_array_size = ceil(-(capacity * log(false_positive) / (ln2 * ln2)))
BitArraySize(p, capacity) == CeilDiv(-(capacity * LogMicro(p)), Ln2SqMicro)

\* _hash_func_num = round((_bit_array_size / capacity) * ln2)
HashFuncNum(m, capacity) == RoundDiv(m * Ln2Micro, capacity * Micro)

(***************************************************************************)
(* 64-bit unsigned words                                                   *)
(***************************************************************************)
LimbBase == 65536

WordLimbs == 4

\* the 64-bit word of a small natural
Word(n) == <<n % LimbBase, n \div LimbBase, 0, 0>>

AllOnes == <<LimbBase - 1, LimbBase - 1, LimbBase - 1, LimbBase - 1>>

RECURSIVE MulLimbs(_, _, _, _)
\* limbs i.. of w * n + carry, truncated to the word
MulLimbs(w, n, i, carry) ==
  IF i > WordLimbs THEN <<>>
  ELSE LET t == w[i] * n + carry
       IN  <<t % LimbBase>> \o MulLimbs(w, n, i + 1, t \div LimbBase)

\* n * w  (mod 2^64)
Mul64(n, w) == MulLimbs(w, n, 1, 0)

RECURSIVE AddLimbs(_, _, _, _)
AddLimbs(a, b, i, carry) ==
  IF i > WordLimbs THEN <<>>
  ELSE LET t == a[i] + b[i] + carry
       IN  <<t % LimbBase>> \o AddLimbs(a, b, i + 1, t \div LimbBase)

\* a + b  (mod 2^64)
Add64(a, b) == AddLimbs(a, b, 1, 0)

RECURSIVE ModLimbs(_, _, _, _)
ModLimbs(w, m, i, r) ==
  IF i = 0 THEN r ELSE ModLimbs(w, m, i - 1, (r * LimbBase + w[i]) % m)

\* w % m, m > 0
Mod64(w, m) == ModLimbs(w, m, WordLimbs, 0)

(***************************************************************************)
(* Elements and their 128-bit hash                                         *)
(***************************************************************************)
Elems == {"e1", "e2"}

\* hash_val[0], hash_val[1] as written by
\* MurmurHash3_x64_128(p, sizeof(T), 0, hash_val):
\*   e1  hash_a = 5,        hash_b = 0   (every round at one index)
\*   e2  hash_a = 2^64 - 1, hash_b = 1   (rounds at consecutive indices)
MurmurHash3_x64_128(e) ==
  IF e = "e1" THEN [hash_a |-> Word(5), hash_b |-> Word(0)]
              ELSE [hash_a |-> AllOnes, hash_b |-> Word(1)]

\* (hash_b + n * hash_a) % m: the two halves taken in the wrong order
CombineSwapped(hash_a, hash_b, n, m) ==
  Mod64(Add64(hash_b, Mul64(n, hash_a)), m)

\* return (hash_a + n * hash_b) % _bit_array_size; with size_type hash_a,
\* hash_b and n: 64-bit unsigned arithmetic
Combine(hash_a, hash_b, n, m) == Mod64(Add64(hash_a, Mul64(n, hash_b)), m)

\* hash_at_n of element e, round n, _bit_array_size = m
HashWord(e, n, m) ==
  LET hash_val == MurmurHash3_x64_128(e)
      hash_a == hash_val.hash_a
      hash_b == hash_val.hash_b
  IN  Combine(hash_a, hash_b, n, m)

\* the array sizes and round indices the inputs lead to
ArraySizes == {BitArraySize(i[1], i[2]) : i \in ValidInputs} \ {0}

RoundCounts == {HashFuncNum(BitArraySize(i[1], i[2]), i[2]) : i \in ValidInputs}

MaxRounds == CHOOSE k \in RoundCounts : \A j \in RoundCounts : j <= k

\* HashWord, tabulated once for these sizes and rounds
HashTable ==
  [e \in Elems |-> [m \in ArraySizes |-> [n \in 0..MaxRounds |->
     HashWord(e, n, m)]]]

\* size_type hash_at_n(const T* p, size_type n) const, m = _bit_array_size > 0
hash_at_n(e, n, m) ==
  IF m \in ArraySizes /\ n \in 0..MaxRounds
  THEN HashTable[e][m][n]
  ELSE HashWord(e, n, m)

(***************************************************************************)
(* Cells and the add / contains loops                                      *)
(***************************************************************************)
\* elem_type = std::uint8_t
CellRange == 256

\* std::vector<bool>(n, false) and std::vector<elem_type>(n, 0)
NewVector(v, n) == [j \in 1..n |-> IF v = "basic" THEN FALSE ELSE 0]

\* the state of a running loop: the vector, whether the loop has returned
\* early (done) and with what (ret), and whether an access went out of range
Running(b, r) == [bits |-> b, done |-> FALSE, ret |-> r, trap |-> FALSE]

\* the first and last round index of the loops over the hash rounds:
\* basic    for (size_type i = 0; i < _hash_func_num; ++i)
\* ordinal  for (size_type i = 1; i <= _hash_func_num; ++i)
\* the basic loops started at round 1, as the ordinal ones are
FirstRoundOne(v) == 1

FirstRound(v) == IF v = "basic" THEN 0 ELSE 1

\* the basic loops with i <= _hash_func_num, as the ordinal ones have
LastRoundInclusive(v, k) == k

LastRound(v, k) == IF v = "basic" THEN k - 1 ELSE k

\* basic add whose loop starts at round 1 while contains starts at round 0
BasicAddStepFromOne(s, hash_val, i) ==
  IF i = 0 THEN s ELSE [s EXCEPT !.bits[hash_val + 1] = TRUE]

\* basic add, round i:  _bits[hash_val] = true;
BasicAddStep(s, hash_val, i) == [s EXCEPT !.bits[hash_val + 1] = TRUE]

\* basic contains, round i:  if (_bits[hash_val] != true) return false;
BasicContainsStep(s, hash_val, i) ==
  IF s.bits[hash_val + 1] # TRUE
  THEN [s EXCEPT !.done = TRUE, !.ret = FALSE]
  ELSE s

\* static_cast<elem_type>(i)
CastToCell(i) == i % CellRange

\* ordinal add that stores the round without comparing
OrdinalAddStepOverwrite(s, hash_val, i) ==
  [s EXCEPT !.bits[hash_val + 1] = CastToCell(i)]

\* ordinal add, round i:
\*   if (_bits[hash_val] < i) _bits[hash_val] = static_cast<elem_type>(i);
OrdinalAddStep(s, hash_val, i) ==
  IF s.bits[hash_val + 1] < i
  THEN [s EXCEPT !.bits[hash_val + 1] = CastToCell(i)]
  ELSE s

\* ordinal contains, round i:  if (_bits[hash_val] < i) return false;
OrdinalContainsStep(s, hash_val, i) ==
  IF s.bits[hash_val + 1] < i
  THEN [s EXCEPT !.done = TRUE, !.ret = FALSE]
  ELSE s

\* round i of the loop of v's add or contains: hash_val = hash_at_n(&elem, i),
\* then the body; the round traps when the modulo is by zero or hash_val is
\* outside _bits
RoundStep(v, isAdd, s, e, i, m) ==
  IF m = 0 THEN [s EXCEPT !.trap = TRUE]
  ELSE LET hash_val == hash_at_n(e, i, m)
       IN  IF hash_val >= Len(s.bits) THEN [s EXCEPT !.trap = TRUE]
           ELSE IF v = "basic"
           THEN IF isAdd THEN BasicAddStep(s, hash_val, i)
                         ELSE BasicContainsStep(s, hash_val, i)
           ELSE IF isAdd THEN OrdinalAddStep(s, hash_val, i)
                         ELSE OrdinalContainsStep(s, hash_val, i)

RECURSIVE Rounds(_, _, _, _, _, _, _)
\* the rounds lo, lo + 1, .. hi of the loop, in this order, until it returns
Rounds(v, isAdd, s, e, lo, hi, m) ==
  IF lo > hi THEN s
  ELSE IF lo = hi THEN RoundStep(v, isAdd, s, e, lo, m)
  ELSE LET mid == (lo + hi) \div 2
           half == Rounds(v, isAdd, s, e, lo, mid, m)
       IN  IF half.trap \/ half.done THEN half
           ELSE Rounds(v, isAdd, half, e, mid + 1, hi, m)

\* add(elem) on a filter holding (b, m, k)
AddResult(v, b, m, k, e) ==
  Rounds(v, TRUE, Running(b, FALSE), e, FirstRound(v), LastRound(v, k), m)

\* contains(elem) on a filter holding (b, m, k):  ... return true;
ContainsResult(v, b, m, k, e) ==
  Rounds(v, FALSE, Running(b, TRUE), e, FirstRound(v), LastRound(v, k), m)

\* clear() that stops after _bits.clear()
ClearedBitsEmpty(v, m) == <<>>

\* clear(): _bits.clear(); _bits = std::vector<...>(_bit_array_size, 0)
ClearedBits(v, m) == NewVector(v, m)

\* rhs._bits after std::move(rhs._bits): the moved-from vector is empty
MovedFromBits == <<>>

\* a move that leaves rhs._bit_array_size as it was
RhsSizeStale(m) == m

\* rhs._bit_array_size = 0, given its value m before the move
RhsSizeAfterMove(m) == 0

\* a move that leaves rhs._hash_func_num as it was
RhsRoundsStale(k) == k

\* rhs._hash_func_num = 0, given its value k before the move
RhsRoundsAfterMove(k) == 0

\* a move assignment without the self check
NotSelfUnchecked(d, s) == TRUE

\* if (this != &rhs) of the move assignment
NotSelf(d, s) == d # s

(***************************************************************************)
(* State                                                                   *)
(***************************************************************************)
NoRate == Rate(0, 0)

NoOrigin == [rate |-> NoRate, capacity |-> 0]

\* the last call: the operation, the filter it is called on (f), the rhs of a
\* move or swap (g), the constructor's arguments, whether it threw
\* std::range_error, and what contains returned
Op(o, f, g, p, c, t, r) ==
  [op |-> o, f |-> f, g |-> g, rate |-> p, capacity |-> c,
   threw |-> t, ret |-> r]

\* no call of hash_at_n on its own yet
NoProbe ==
  [hash_a |-> Word(0), hash_b |-> Word(0), n |-> 0, m |-> 0, index |-> 0]

Init ==
  /\ variant \in Variants
  /\ inputs \in {CommonInputs, WideInputs}
  /\ alive = {}
  /\ bits = [f \in Slots |-> <<>>]
  /\ bit_array_size = [f \in Slots |-> 0]
  /\ hash_func_num = [f \in Slots |-> 0]
  /\ added = [f \in Slots |-> {}]
  /\ origin = [f \in Slots |-> NoOrigin]
  /\ last = Op("init", None, None, NoRate, 0, FALSE, FALSE)
  /\ fault = FALSE
  /\ probe = NoProbe

\* Filter(double false_positive, size_type capacity)
Construct(f, p, capacity) ==
  /\ ~fault
  /\ f \notin alive
  /\ IF InvalidRate(p)
     THEN /\ last' = Op("construct", f, None, p, capacity, TRUE, FALSE)
          /\ UNCHANGED <<alive, bits, bit_array_size, hash_func_num,
                         added, origin>>
     ELSE LET m == BitArraySize(p, capacity)
          IN  /\ alive' = alive \cup {f}
              /\ bit_array_size' = [bit_array_size EXCEPT ![f] = m]
              /\ bits' = [bits EXCEPT ![f] = NewVector(variant, m)]
              /\ hash_func_num' =
                   [hash_func_num EXCEPT ![f] = HashFuncNum(m, capacity)]
              /\ added' = [added EXCEPT ![f] = {}]
              /\ origin' = [origin EXCEPT
                              ![f] = [rate |-> p, capacity |-> capacity]]
              /\ last' = Op("construct", f, None, p, capacity, FALSE, FALSE)
  /\ UNCHANGED <<probe, variant, inputs, fault>>

\* the transfer both moves make from rhs = s to *this = d
Transfer(d, s) ==
  /\ bits' = [bits EXCEPT ![d] = bits[s], ![s] = MovedFromBits]
  /\ bit_array_size' =
       [bit_array_size EXCEPT ![d] = bit_array_size[s],
                              ![s] = RhsSizeAfterMove(bit_array_size[s])]
  /\ hash_func_num' =
       [hash_func_num EXCEPT ![d] = hash_func_num[s],
                             ![s] = RhsRoundsAfterMove(hash_func_num[s])]
  /\ added' = [added EXCEPT ![d] = added[s], ![s] = {}]
  /\ origin' = [origin EXCEPT ![d] = origin[s], ![s] = NoOrigin]

\* Filter(Filter&& rhs) noexcept
MoveConstruct(d, s) ==
  /\ ~fault
  /\ d \notin alive
  /\ s \in alive
  /\ Transfer(d, s)
  /\ alive' = alive \cup {d}
  /\ last' = Op("move_construct", d, s, NoRate, 0, FALSE, FALSE)
  /\ UNCHANGED <<probe, variant, inputs, fault>>

\* Filter& operator=(Filter&& rhs) noexcept
MoveAssign(d, s) ==
  /\ ~fault
  /\ d \in alive
  /\ s \in alive
  /\ IF NotSelf(d, s)
     THEN Transfer(d, s)
     ELSE UNCHANGED <<bits, bit_array_size, hash_func_num, added, origin>>
  /\ last' = Op("move_assign", d, s, NoRate, 0, FALSE, FALSE)
  /\ UNCHANGED <<probe, variant, inputs, alive, fault>>

\* ~Filter() = default
Destroy(f) ==
  /\ ~fault
  /\ f \in alive
  /\ alive' = alive \ {f}
  /\ bits' = [bits EXCEPT ![f] = <<>>]
  /\ bit_array_size' = [bit_array_size EXCEPT ![f] = 0]
  /\ hash_func_num' = [hash_func_num EXCEPT ![f] = 0]
  /\ added' = [added EXCEPT ![f] = {}]
  /\ origin' = [origin EXCEPT ![f] = NoOrigin]
  /\ last' = Op("destroy", f, None, NoRate, 0, FALSE, FALSE)
  /\ UNCHANGED <<probe, variant, inputs, fault>>

\* void clear()
Clear(f) ==
  /\ ~fault
  /\ f \in alive
  /\ bits' = [bits EXCEPT ![f] = ClearedBits(variant, bit_array_size[f])]
  /\ added' = [added EXCEPT ![f] = {}]
  /\ last' = Op("clear", f, None, NoRate, 0, FALSE, FALSE)
  /\ UNCHANGED <<probe, variant, inputs, alive, bit_array_size, hash_func_num, origin, fault>>

\* void add(const T& elem)
Add(f, e) ==
  /\ ~fault
  /\ f \in alive
  /\ LET r == AddResult(variant, bits[f], bit_array_size[f],
                        hash_func_num[f], e)
     IN  /\ fault' = r.trap
         /\ bits' = [bits EXCEPT ![f] = r.bits]
         /\ added' = [added EXCEPT ![f] = IF r.trap THEN @ ELSE @ \cup {e}]
  /\ last' = Op("add", f, None, NoRate, 0, FALSE, FALSE)
  /\ UNCHANGED <<probe, variant, inputs, alive, bit_array_size, hash_func_num, origin>>

\* bool contains(const T& elem) const
Contains(f, e) ==
  /\ ~fault
  /\ f \in alive
  /\ LET r == ContainsResult(variant, bits[f], bit_array_size[f],
                             hash_func_num[f], e)
     IN  /\ fault' = r.trap
         /\ last' = Op("contains", f, None, NoRate, 0, FALSE, r.ret)
  /\ UNCHANGED <<probe, variant, inputs, alive, bits, bit_array_size, hash_func_num,
                 added, origin>>

\* x = rhs.x where std::swap(x, rhs.x) was meant
ExchangeOneWay(t, a, b) == [t EXCEPT ![a] = t[b]]

\* std::swap(x, rhs.x) for a member x, held for every filter in t
Exchange(t, a, b) == [t EXCEPT ![a] = t[b], ![b] = t[a]]

\* void swap(Filter& rhs)
Swap(a, b) ==
  /\ ~fault
  /\ a \in alive
  /\ b \in alive
  /\ bits' = Exchange(bits, a, b)
  /\ bit_array_size' = Exchange(bit_array_size, a, b)
  /\ hash_func_num' = Exchange(hash_func_num, a, b)
  /\ added' = Exchange(added, a, b)
  /\ origin' = Exchange(origin, a, b)
  /\ last' = Op("swap", a, b, NoRate, 0, FALSE, FALSE)
  /\ UNCHANGED <<probe, variant, inputs, alive, fault>>

Next ==
  \/ \E f \in Slots, i \in inputs : Construct(f, i[1], i[2])
  \/ \E d \in Slots, s \in Slots : MoveConstruct(d, s)
  \/ \E d \in Slots, s \in Slots : MoveAssign(d, s)
  \/ \E f \in Slots : Destroy(f)
  \/ \E f \in Slots : Clear(f)
  \/ \E f \in Slots, e \in Elems : Add(f, e)
  \/ \E f \in Slots, e \in Elems : Contains(f, e)
  \/ \E a \in Slots, b \in Slots : Swap(a, b)

Spec == Init /\ [][Next]_vars

(***************************************************************************)
(* hash_at_n on its own, over pairs of 64-bit halves                       *)
(***************************************************************************)
\* 0, 1, 5, 2^32, 2^63, 2^64 - 1
HalfWords == { Word(0), Word(1), Word(5), <<0, 0, 1, 0>>,
               <<0, 0, 0, LimbBase \div 2>>, AllOnes }

\* the round indices a filter with MaxProbeRounds hash functions passes
ProbeRounds == FirstRound(variant)..LastRound(variant, MaxProbeRounds)

\* hash_at_n where MurmurHash3_x64_128 wrote (hash_a, hash_b), at round n, with
\* _bit_array_size = m
HashAtN(hash_a, hash_b, n, m) ==
  /\ probe' = [hash_a |-> hash_a, hash_b |-> hash_b, n |-> n, m |-> m,
               index |-> Combine(hash_a, hash_b, n, m)]
  /\ UNCHANGED <<variant, inputs, alive, bits, bit_array_size, hash_func_num,
                 added, origin, last, fault>>

HashInit == Init /\ inputs = CommonInputs

HashNext ==
  \E hash_a \in HalfWords, hash_b \in HalfWords,
     n \in ProbeRounds, m \in 1..MaxProbeSize : HashAtN(hash_a, hash_b, n, m)

HashSpec == HashInit /\ [][HashNext]_vars

(***************************************************************************)
(* Properties                                                              *)
(***************************************************************************)
\* what contains(e) returns on filter f in this state
Answer(f, e) ==
  ContainsResult(variant, bits[f], bit_array_size[f], hash_func_num[f], e).ret

\* what contains(e) returns on filter f in the next state
AnswerNext(f, e) ==
  ContainsResult(variant', bits'[f], bit_array_size'[f], hash_func_num'[f],
                 e).ret

\* the (array, bit_array_size, hash_func_num) of filter f
Triple(f) == <<bits[f], bit_array_size[f], hash_func_num[f]>>

TripleNext(f) == <<bits'[f], bit_array_size'[f], hash_func_num'[f]>>

\* the triple of a filter just constructed with (p, capacity)
Fresh(v, p, capacity) ==
  LET m == BitArraySize(p, capacity)
  IN  <<NewVector(v, m), m, HashFuncNum(m, capacity)>>

\* C1: a BasicFilter answers true for every element added since the array was
\* last zeroed, whatever else was added before or after.
C1_BasicNoFalseNegatives ==
  variant = "basic" =>
    \A f \in alive : \A e \in added[f] : Answer(f, e)

C1_Witness ==
  /\ variant = "basic"
  /\ last.op = "add"
  /\ added[last.f] = Elems
  /\ hash_func_num[last.f] > 1
  /\ \A e \in Elems : Answer(last.f, e)

\* C2: an OrdinalFilter answers true for every element added since the array
\* was last zeroed, for every hash_func_num the constructor can produce.
C2_OrdinalNoFalseNegatives ==
  variant = "ordinal" =>
    \A f \in alive : \A e \in added[f] : Answer(f, e)

\* C3: an add never turns a true contains answer into false, in either filter.
C3_MonotonicFullness ==
  [][last'.op = "add" =>
       \A f \in alive : \A e \in Elems : Answer(f, e) => AnswerNext(f, e)]_vars

C3_Witness ==
  /\ variant = "ordinal"
  /\ last.op = "add"
  /\ added[last.f] = Elems
  /\ hash_func_num[last.f] > 1
  /\ \A e \in Elems : Answer(last.f, e)

\* C4: in an OrdinalFilter no add makes the stored value of any cell smaller.
C4_OrdinalCellsNeverDecrease ==
  [][(variant = "ordinal" /\ last'.op = "add") =>
       \A f \in alive : \A j \in 1..Len(bits[f]) : bits'[f][j] >= bits[f][j]]_vars

\* C5: after clear() on a filter, contains(e) is false for every element e not
\* added again since that clear.
C5_ClearedAnswersFalse ==
  \A f \in alive : \A e \in Elems \ added[f] :
    (last.op = "clear" /\ last.f = f) => ~Answer(f, e)

\* C6: clear() leaves the array at length bit_array_size with every cell zero
\* and the two scalars unchanged, which is the state of a filter just
\* constructed with the arguments the array was sized with.
C6_ClearRestoresFresh ==
  [][last'.op = "clear" =>
       LET f == last'.f
       IN  /\ bit_array_size'[f] = bit_array_size[f]
           /\ hash_func_num'[f] = hash_func_num[f]
           /\ Len(bits'[f]) = bit_array_size[f]
           /\ \A j \in 1..Len(bits'[f]) :
                bits'[f][j] = (IF variant = "basic" THEN FALSE ELSE 0)
           /\ origin[f] # NoOrigin =>
                TripleNext(f) = Fresh(variant, origin[f].rate,
                                      origin[f].capacity)]_vars

C6_Witness ==
  /\ last.op = "clear"
  /\ last.f \in alive
  /\ origin[last.f] # NoOrigin
  /\ bit_array_size[last.f] > 1
  /\ hash_func_num[last.f] >= 1
  /\ \E g \in alive : added[g] # {}

\* the rates 0, 1, -0.1 and 1.5, and every other rate that is not inside (0, 1)
OutsideUnitInterval(p) ==
  \/ p \in {Rate(0, 0), Rate(1, 0), Rate(-1, -1), Rate(15, -1)}
  \/ p.mant <= 0
  \/ (p.exp >= 0 /\ p.mant >= 1)

\* C7: constructing with a rate <= 0 or >= 1 throws and leaves no size and no
\* array behind; constructing with a rate inside (0, 1) does not throw and
\* yields a zeroed array of length bit_array_size.
C7_ConstructionChecksRate ==
  last.op = "construct" =>
    IF OutsideUnitInterval(last.rate)
    THEN /\ last.threw
         /\ last.f \notin alive
         /\ Triple(last.f) = <<(<<>>), 0, 0>>
    ELSE /\ ~last.threw
         /\ last.f \in alive
         /\ Len(bits[last.f]) = bit_array_size[last.f]
         /\ \A j \in 1..Len(bits[last.f]) :
              bits[last.f][j] = (IF variant = "basic" THEN FALSE ELSE 0)

C7_Witness ==
  /\ last.op = "construct"
  /\ last.rate = Rate(1, 0)
  /\ last.threw
  /\ \E g \in alive : bit_array_size[g] > 0

\* C8: for every rate inside (0, 1) and capacity > 0 the constructor's sizing
\* yields bit_array_size >= 1 and hash_func_num >= 1.
C8_SizingPositive ==
  (last.op = "construct" /\ ~last.threw) =>
    /\ bit_array_size[last.f] >= 1
    /\ hash_func_num[last.f] >= 1

\* the round indices of the loops of add and contains on filter f
RoundsOf(f) == FirstRound(variant)..LastRound(variant, hash_func_num[f])

\* C9: add and contains never fail on a constructed filter: no call has indexed
\* outside the array or taken a modulo by zero, and in every state every index
\* the loops would compute lies inside [0, bit_array_size) and inside the array.
C9_IndicesInRange ==
  /\ ~fault
  /\ \A f \in alive :
       /\ Len(bits[f]) = bit_array_size[f]
       /\ RoundsOf(f) # {} => bit_array_size[f] > 0
       /\ \A e \in Elems : \A i \in RoundsOf(f) :
            /\ hash_at_n(e, i, bit_array_size[f]) >= 0
            /\ hash_at_n(e, i, bit_array_size[f]) < bit_array_size[f]
            /\ hash_at_n(e, i, bit_array_size[f]) < Len(bits[f])

C9_Witness ==
  /\ ~fault
  /\ last.op = "add"
  /\ \E f \in alive : bit_array_size[f] = 0
  /\ \E f \in alive : bit_array_size[f] > 1 /\ added[f] # {}

\* C10: a move from a distinct filter gives the destination exactly the source's
\* array and scalars and leaves the source with an empty array and both scalars
\* zero; a move assignment to itself changes nothing; and an add or clear on
\* one filter changes no other filter's array, scalars or contains answers.
C10_MoveTransfersOwnership ==
  [][/\ last'.op \in {"move_construct", "move_assign"} =>
          LET d == last'.f
              s == last'.g
          IN  IF d # s
              THEN /\ TripleNext(d) = Triple(s)
                   /\ TripleNext(s) = <<(<<>>), 0, 0>>
              ELSE TripleNext(d) = Triple(d)
     /\ last'.op \in {"add", "clear"} =>
          \A g \in Slots \ {last'.f} :
            /\ TripleNext(g) = Triple(g)
            /\ \A e \in Elems : AnswerNext(g, e) = Answer(g, e)]_vars

C10_Witness ==
  /\ last.op = "move_assign"
  /\ last.f # last.g
  /\ bit_array_size[last.f] > 1
  /\ added[last.f] # {}
  /\ Triple(last.g) = <<(<<>>), 0, 0>>

\* the two scalars of filter f
Scalars(f) == <<bit_array_size[f], hash_func_num[f]>>

ScalarsNext(f) == <<bit_array_size'[f], hash_func_num'[f]>>

\* C11 as stated: no operation on an existing filter (add, contains, clear,
\* being the source or target of a move, swap) changes its bit_array_size or
\* hash_func_num.
C11_ScalarsImmutable ==
  [][\A f \in alive \cap alive' : ScalarsNext(f) = Scalars(f)]_vars

\* C11 amended: add, contains and clear leave both scalars of every filter
\* unchanged; a move from a distinct filter gives the target the source's
\* scalars and sets the source's to 0; swap exchanges the scalars of the two
\* filters; a filter that is not an operand of the move or swap keeps its own.
C11_ScalarsChangeOnlyByMoveOrSwap ==
  [][/\ last'.op \in {"add", "contains", "clear"} =>
          \A f \in Slots : ScalarsNext(f) = Scalars(f)
     /\ (last'.op \in {"move_construct", "move_assign"} /\ last'.f # last'.g) =>
          /\ ScalarsNext(last'.f) = Scalars(last'.g)
          /\ ScalarsNext(last'.g) = <<0, 0>>
     /\ last'.op = "swap" =>
          /\ ScalarsNext(last'.f) = Scalars(last'.g)
          /\ ScalarsNext(last'.g) = Scalars(last'.f)
     /\ last'.op \in {"move_construct", "move_assign", "swap"} =>
          \A f \in Slots \ {last'.f, last'.g} : ScalarsNext(f) = Scalars(f)]_vars

C11_Witness ==
  /\ last.op = "move_assign"
  /\ last.f # last.g
  /\ Scalars(last.g) = <<0, 0>>
  /\ bit_array_size[last.f] > 1
  /\ hash_func_num[last.f] > 1

\* C12: every OrdinalFilter the constructor accepts has hash_func_num <= 255, so
\* every round index add writes fits the 8-bit cell.
C12_OrdinalRoundsFitCell ==
  variant = "ordinal" =>
    \A f \in alive :
      /\ hash_func_num[f] <= CellRange - 1
      /\ \A i \in RoundsOf(f) : CastToCell(i) = i

Max(S) == CHOOSE x \in S : \A y \in S : y <= x

\* the pairs <<index, round>> of the rounds lo..hi of the elements of A in an
\* array of m cells
Claims(A, lo, hi, m) == {<<hash_at_n(e, i, m), i>> : e \in A, i \in lo..hi}

\* C13: in an OrdinalFilter every cell holds the largest round i in
\* 1..hash_func_num at which an element added since the array was zeroed hashes
\* to the cell, and 0 when there is none; contains(e) is true exactly when the
\* cell of every round i of e holds at least i.
C13_OrdinalHighWaterMark ==
  variant = "ordinal" =>
    \A f \in alive :
      LET m == bit_array_size[f]
          k == hash_func_num[f]
          claims == Claims(added[f], 1, k, m)
      IN  /\ \A j \in 1..Len(bits[f]) :
               bits[f][j] = Max({0} \cup {c[2] : c \in {d \in claims : d[1] = j - 1}})
          /\ \A e \in Elems :
               Answer(f, e) = (\A i \in 1..k : bits[f][hash_at_n(e, i, m) + 1] >= i)

\* the indices of the rounds 0..k-1 of element e in an array of m cells
BasicIndices(e, m, k) == {c[1] : c \in Claims({e}, 0, k - 1, m)}

\* the indices of the bits of b that are true
TrueBits(b) == {j - 1 : j \in {x \in 1..Len(b) : b[x]}}

\* the step created filter f or changed its array, scalars or added elements
Touched(f) ==
  f \notin alive \/ TripleNext(f) # Triple(f) \/ added'[f] # added[f]

\* C14: in a BasicFilter a bit is true exactly when an element added since the
\* array was zeroed hashes to it in a round 0..hash_func_num-1; add(e) sets the
\* bits of e's rounds and leaves every other bit as it was; contains(e) is true
\* exactly when the bit of every round of e is true, and changes no filter.
\* (The first two are stated of every filter a step creates or changes; a
\* filter a step leaves as it was keeps them from the state before.)
C14_BasicBitSet ==
  [][variant = "basic" =>
       /\ \A f \in {g \in alive' : Touched(g)} :
            LET m == bit_array_size'[f]
                k == hash_func_num'[f]
            IN  /\ TrueBits(bits'[f]) =
                     UNION {BasicIndices(e, m, k) : e \in added'[f]}
                /\ \A e \in Elems :
                     AnswerNext(f, e) =
                       (\A i \in 0..(k - 1) : bits'[f][hash_at_n(e, i, m) + 1])
       /\ last'.op = "add" =>
            LET f == last'.f
                m == bit_array_size[f]
                k == hash_func_num[f]
            IN  \E e \in Elems :
                  /\ added'[f] = added[f] \cup {e}
                  /\ Len(bits'[f]) = Len(bits[f])
                  /\ TrueBits(bits'[f]) =
                       TrueBits(bits[f]) \cup BasicIndices(e, m, k)
       /\ last'.op = "contains" =>
            /\ \A f \in Slots : TripleNext(f) = Triple(f)
            /\ \E e \in Elems : last'.ret = Answer(last'.f, e)]_vars

C14_Witness ==
  /\ variant = "basic"
  /\ last.op = "add"
  /\ added[last.f] = Elems
  /\ hash_func_num[last.f] > 1
  /\ \E j \in 1..Len(bits[last.f]) : ~bits[last.f][j]
  /\ Cardinality({j \in 1..Len(bits[last.f]) : bits[last.f][j]}) > 2

\* (hash_a + n * hash_b) mod m over the integers, computed from the residues
\* of the two halves
IntegerIndex(p) ==
  (Mod64(p.hash_a, p.m) + p.n * Mod64(p.hash_b, p.m)) % p.m

RECURSIVE CarryOut(_, _, _, _, _)
\* floor((hash_a + n * hash_b) / 2^64): the carry out of the top limb
CarryOut(hash_a, hash_b, n, i, carry) ==
  IF i > WordLimbs THEN carry
  ELSE CarryOut(hash_a, hash_b, n, i + 1,
                (hash_a[i] + n * hash_b[i] + carry) \div LimbBase)

\* 2^64 mod m
TwoTo64Mod(m) == (Mod64(AllOnes, m) + 1) % m

\* C15 as stated: hash_at_n returns (hash_a + n * hash_b) mod bit_array_size
\* taken over the integers.
C15_HashRoundUnbounded ==
  probe.m >= 1 => probe.index = IntegerIndex(probe)

\* C15 amended: hash_at_n returns ((hash_a + n * hash_b) mod 2^64) mod
\* bit_array_size, an index in [0, bit_array_size): with q the number of times
\* the sum passes 2^64, the index is the integer formula's less q * 2^64,
\* modulo bit_array_size, and is the integer formula's when q = 0.
C15_HashRoundWraps ==
  probe.m >= 1 =>
    LET q == CarryOut(probe.hash_a, probe.hash_b, probe.n, 1, 0)
    IN  /\ probe.index \in 0..(probe.m - 1)
        /\ probe.index =
             (IntegerIndex(probe) + q * (probe.m - TwoTo64Mod(probe.m)))
               % probe.m
        /\ q = 0 => probe.index = IntegerIndex(probe)

C15_Witness ==
  /\ probe.m > 1
  /\ probe.n > 1
  /\ CarryOut(probe.hash_a, probe.hash_b, probe.n, 1, 0) > 1
  /\ probe.index # IntegerIndex(probe)

\* C16: in every state the length of each filter's array equals its
\* bit_array_size, whatever add, contains, clear, moves and swaps led to it (a
\* clear() of a moved-from filter included), and swap(a, b) exchanges the
\* (array, bit_array_size, hash_func_num) triples of a and b.
C16_LengthIsSizeAndSwapExchanges ==
  [][/\ \A f \in Slots : Len(bits'[f]) = bit_array_size'[f]
     /\ last'.op = "swap" =>
          /\ TripleNext(last'.f) = Triple(last'.g)
          /\ TripleNext(last'.g) = Triple(last'.f)
          /\ \A f \in Slots \ {last'.f, last'.g} : TripleNext(f) = Triple(f)]_vars

C16_Witness ==
  /\ last.op = "clear"
  /\ last.f \in alive
  /\ origin[last.f] = NoOrigin
  /\ Triple(last.f) = <<(<<>>), 0, 0>>
  /\ \E g \in alive : bit_array_size[g] > 1 /\ Len(bits[g]) = bit_array_size[g]

\* the array of filter f after add(e) on the array b
ArrayAfterAdd(f, b, e) ==
  AddResult(variant, b, bit_array_size[f], hash_func_num[f], e).bits

\* C17: from every state, in both filters, add(a); add(a) leaves the array
\* add(a) leaves, and add(a); add(b) leaves the array add(b); add(a) leaves.
C17_AddIdempotentAndCommutes ==
  \A f \in alive : \A a \in Elems :
    LET afterA == ArrayAfterAdd(f, bits[f], a)
    IN  /\ ArrayAfterAdd(f, afterA, a) = afterA
        /\ \A b \in Elems \ {a} :
             ArrayAfterAdd(f, afterA, b) =
               ArrayAfterAdd(f, ArrayAfterAdd(f, bits[f], b), a)

\* C18: a filter whose hash_func_num is 0 runs no hash round: add leaves its
\* array as it was and indexes nothing, and contains answers true for every
\* element, with nothing added and right after clear() too.
C18_NoRoundsFilter ==
  [][/\ \A f \in alive' :
          hash_func_num'[f] = 0 =>
            /\ RoundsOf(f)' = {}
            /\ \A e \in Elems : AnswerNext(f, e)
     /\ (last'.op = "add" /\ hash_func_num[last'.f] = 0) =>
          /\ bits'[last'.f] = bits[last'.f]
          /\ ~fault'
     /\ (last'.op = "contains" /\ hash_func_num[last'.f] = 0) =>
          /\ last'.ret
          /\ ~fault']_vars

C18_Witness ==
  /\ last.op = "contains"
  /\ last.ret
  /\ hash_func_num[last.f] = 0
  /\ bit_array_size[last.f] = 1
  /\ added[last.f] = {}
  /\ \E g \in alive : Triple(g) = <<(<<>>), 0, 0>>

====
